---- MODULE Spec2Model ----
(***************************************************************************)
(* Region and School resource handlers (create, getAll, get) of the        *)
(* digiedu server, with their row mappers, as a state machine over a set   *)
(* of concurrent HTTP requests and the two database tables.                *)
(***************************************************************************)
EXTENDS Integers, Sequences, FiniteSets, TLC

\* Number of request slots (concurrent or successive HTTP requests).
MaxReq == 2

Req == 1..MaxReq

Resources == {"region", "school"}

\* drogon::k200OK, k404NotFound, k500InternalServerError as used by the handlers
k200OK == 200
k404NotFound == 404
k500InternalServerError == 500

(***************************************************************************)
(* JSON values of a request body (Json::Value) and Json::Value::asString   *)
(***************************************************************************)
JStr(s) == [type |-> "string", str |-> s, int |-> 0]
JInt(n) == [type |-> "int", str |-> "", int |-> n]
\* a real number, held in halves: JReal(3) is 1.5. Every such value is a
\* double exactly, so printing it with 17 significant digits gives x.0 or x.5.
JReal(halves) == [type |-> "real", str |-> "", int |-> halves]
JBool(b) == [type |-> "bool", str |-> "", int |-> IF b THEN 1 ELSE 0]
JNull == [type |-> "null", str |-> "", int |-> 0]
JArray == [type |-> "array", str |-> "", int |-> 0]
JObject == [type |-> "object", str |-> "", int |-> 0]

\* (*json)[key]: a key the object lacks yields the null value
JsonGet(json, key) == IF key \in DOMAIN json THEN json[key] ELSE JNull

Digit(d) == <<"0", "1", "2", "3", "4", "5", "6", "7", "8", "9">>[d + 1]

RECURSIVE Decimal(_)
Decimal(n) == IF n < 10 THEN Digit(n) ELSE Decimal(n \div 10) \o Digit(n % 10)

\* Json::Value::asString() raises Json::LogicError on an array or an object
asStringThrows(v) == v.type \in {"array", "object"}

\* Json::Value::asString(): null -> "", string -> itself, a number -> printed,
\* bool -> true/false; an array or an object is not convertible (asStringThrows)
asString(v) ==
    CASE v.type = "string" -> v.str
      [] v.type = "null" -> ""
      [] v.type = "int" -> IF v.int < 0 THEN "-" \o Decimal(0 - v.int) ELSE Decimal(v.int)
      [] v.type = "real" ->
            IF v.int < 0
            THEN "-" \o Decimal((0 - v.int) \div 2) \o "." \o Digit(5 * ((0 - v.int) % 2))
            ELSE Decimal(v.int \div 2) \o "." \o Digit(5 * (v.int % 2))
      [] v.type = "bool" -> IF v.int = 1 THEN "true" ELSE "false"

(***************************************************************************)
(* Row mapper: JSON request body -> dao struct                             *)
(***************************************************************************)
RegionFromCreateRequest(json) ==
    [id |-> "",
     name |-> asString(JsonGet(json, "name")),
     legalAddress |-> asString(JsonGet(json, "legal_address")),
     mainContact |-> asString(JsonGet(json, "main_contact"))]

SchoolFromCreateRequest(json) ==
    [id |-> "",
     name |-> asString(JsonGet(json, "name")),
     legalId |-> asString(JsonGet(json, "legal_id")),
     address |-> asString(JsonGet(json, "address")),
     mainContact |-> asString(JsonGet(json, "main_contact")),
     region |-> asString(JsonGet(json, "region"))]

fromCreateRequest(res, json) ==
    IF res = "region" THEN RegionFromCreateRequest(json) ELSE SchoolFromCreateRequest(json)

\* the keys fromCreateRequest reads
RegionKeys == {"name", "legal_address", "main_contact"}

SchoolKeys == {"name", "legal_id", "address", "main_contact", "region"}

\* What fromCreateRequest does with the request body:
\*   "undefined" - getJsonObject() is empty (the body is not JSON) and is
\*                 dereferenced unchecked;
\*   "throws"    - the body is JSON but neither an object nor null, so
\*                 operator[] raises, or a field read is an array or an
\*                 object, so asString raises;
\*   "entity"    - the entity is built; operator[] turns the body null into
\*                 an object without fields.
RegionFromCreateRequestOutcome(body, json) ==
    IF body = "not_json" THEN "undefined"
    ELSE IF body = "not_object" THEN "throws"
    ELSE IF \E k \in RegionKeys : asStringThrows(JsonGet(json, k)) THEN "throws"
    ELSE "entity"

SchoolFromCreateRequestOutcome(body, json) ==
    IF body = "not_json" THEN "undefined"
    ELSE IF body = "not_object" THEN "throws"
    ELSE IF \E k \in SchoolKeys : asStringThrows(JsonGet(json, k)) THEN "throws"
    ELSE "entity"

fromCreateRequestOutcome(res, body, json) ==
    IF res = "region" THEN RegionFromCreateRequestOutcome(body, json)
    ELSE SchoolFromCreateRequestOutcome(body, json)

(***************************************************************************)
(* SQL statements issued by the dao structs                                *)
(***************************************************************************)
\* variant: main_contact is bound whatever its value
RegionCreateSql_AlwaysBinds(e) ==
    [verb |-> "insert", table |-> "region",
     cols |-> <<"id", "name", "legal_address", "main_contact">>,
     values |-> <<"gen_random_uuid()", "$1", "$2", "$3">>,
     params |-> <<e.name, e.legalAddress, e.mainContact>>]

RegionCreateSql(e) ==
    IF e.mainContact = ""
    THEN [verb |-> "insert", table |-> "region",
          cols |-> <<"id", "name", "legal_address">>,
          values |-> <<"gen_random_uuid()", "$1", "$2">>,
          params |-> <<e.name, e.legalAddress>>]
    ELSE [verb |-> "insert", table |-> "region",
          cols |-> <<"id", "name", "legal_address", "main_contact">>,
          values |-> <<"gen_random_uuid()", "$1", "$2", "$3">>,
          params |-> <<e.name, e.legalAddress, e.mainContact>>]

\* variant: the id column is bound to the entity's id instead of gen_random_uuid()
SchoolCreateSql_BindsId(e) ==
    [verb |-> "insert", table |-> "school",
     cols |-> <<"id", "name", "legal_id", "address", "main_contact", "region">>,
     values |-> <<"$1", "$2", "$3", "$4", "$5", "$6">>,
     params |-> <<e.id, e.name, e.legalId, e.address, e.mainContact, e.region>>]

SchoolCreateSql(e) ==
    [verb |-> "insert", table |-> "school",
     cols |-> <<"id", "name", "legal_id", "address", "main_contact", "region">>,
     values |-> <<"gen_random_uuid()", "$1", "$2", "$3", "$4", "$5">>,
     params |-> <<e.name, e.legalId, e.address, e.mainContact, e.region>>]

execCreateSql(res, e) ==
    IF res = "region" THEN RegionCreateSql(e) ELSE SchoolCreateSql(e)

\* "SELECT * FROM <table>"
execGetAllSql(res) ==
    [verb |-> "select", table |-> res, cols |-> <<>>, values |-> <<>>, params |-> <<>>]

\* "SELECT * FROM <table> WHERE id=$1"
execGetSql(res, id) ==
    [verb |-> "select", table |-> res, cols |-> <<"id">>, values |-> <<"$1">>, params |-> <<id>>]

(***************************************************************************)
(* Storage layer: what the database does with those statements             *)
(***************************************************************************)
\* a stored field: NULL, or a text
Null == [null |-> TRUE, text |-> ""]

SqlText(s) == [null |-> FALSE, text |-> s]

\* the columns of the two tables, as the row mappers read them
RegionColumns == {"id", "name", "legal_address", "main_contact"}

SchoolColumns == {"id", "name", "legal_id", "address", "main_contact", "region"}

Columns(t) == IF t = "region" THEN RegionColumns ELSE SchoolColumns

\* value of a column the INSERT does not name
ColumnDefault == Null

\* gen_random_uuid(): the n-th value drawn is distinct from the earlier ones
gen_random_uuid(n) == "0000-" \o Decimal(n)

ColIndex(cols, c) == CHOOSE i \in 1..Len(cols) : cols[i] = c

\* "$i" -> i
ParamIndex(v) == CHOOSE i \in 1..9 : v = "$" \o Digit(i)

\* The row an INSERT statement stores: each named column takes the value of its
\* VALUES expression (gen_random_uuid() or the parameter bound to $i), every
\* column left out takes its default.
InsertedRow(st, uuid) ==
    [c \in Columns(st.table) |->
        IF \E i \in 1..Len(st.cols) : st.cols[i] = c
        THEN IF st.values[ColIndex(st.cols, c)] = "gen_random_uuid()" THEN SqlText(uuid)
             ELSE SqlText(st.params[ParamIndex(st.values[ColIndex(st.cols, c)])])
        ELSE ColumnDefault]

\* the comparison id=$1 of the storage layer
IdMatches(stored, id) == ~stored.null /\ stored.text = id

\* The rows a SELECT statement returns from the committed rows of its table
SelectedRows(st, rows) ==
    IF Len(st.params) = 0 THEN rows
    ELSE SelectSeq(rows, LAMBDA row : IdMatches(row["id"], st.params[1]))

(***************************************************************************)
(* Row mapper: result row -> JSON object                                   *)
(***************************************************************************)
\* drogon::orm::Field::as<std::string>(): a NULL field reads as the empty string
as_string(field) == IF field.null THEN "" ELSE field.text

RegionRowToJson(r) ==
    [id |-> JStr(as_string(r["id"])),
     name |-> JStr(as_string(r["name"])),
     legal_address |-> JStr(as_string(r["legal_address"])),
     main_contact |-> JStr(as_string(r["main_contact"]))]

SchoolRowToJson(r) ==
    [id |-> JStr(as_string(r["id"])),
     name |-> JStr(as_string(r["name"])),
     legal_id |-> JStr(as_string(r["legal_id"])),
     address |-> JStr(as_string(r["address"])),
     main_contact |-> JStr(as_string(r["main_contact"])),
     region |-> JStr(as_string(r["region"]))]

getRowToJson(res, r) ==
    IF res = "region" THEN RegionRowToJson(r) ELSE SchoolRowToJson(r)

(***************************************************************************)
(* Responses handed to the request's callback                              *)
(***************************************************************************)
emptyResponse(status) == [status |-> status, type |-> "empty", items |-> <<>>]

jsonObjectResponse(obj, status) == [status |-> status, type |-> "object", items |-> <<obj>>]

jsonArrayResponse(arr, status) == [status |-> status, type |-> "array", items |-> arr]

(***************************************************************************)
(* Requests the transport may deliver                                      *)
(***************************************************************************)
NoJson == [k \in {} |-> JNull]

Body(kind, json) == [kind |-> kind, json |-> json]

\* bodies of POST /regions: JSON objects (with and without main_contact, with
\* an id of the client's, with fields that are no strings, with a field that is
\* an array), the JSON document null, a JSON document that is neither an
\* object nor null (an array, a string, a number, a boolean), and a body that
\* is not JSON
RegionBodies ==
    { Body("object", [name |-> JStr("north"), legal_address |-> JStr("1 Main St")]),
      Body("object", [name |-> JStr("north"), legal_address |-> JStr("1 Main St"),
                      main_contact |-> JStr("")]),
      Body("object", [name |-> JStr("south"), legal_address |-> JStr("2 High St"),
                      main_contact |-> JStr("<NULL>")]),
      Body("object", [id |-> JStr("client-id"), name |-> JInt(42),
                      legal_address |-> JReal(3), main_contact |-> JBool(TRUE)]),
      Body("object", [name |-> JArray, legal_address |-> JStr("x")]),
      Body("null", NoJson),
      Body("not_object", NoJson),
      Body("not_json", NoJson) }

SchoolBodies ==
    { Body("object", [name |-> JStr("gym"), legal_id |-> JStr("L1"), address |-> JStr("3 Low St"),
                      main_contact |-> JStr("bob"), region |-> JStr(gen_random_uuid(1))]),
      Body("object", [id |-> JStr("client-id"), name |-> JStr("gym"), legal_id |-> JStr(""),
                      address |-> JStr("3 Low St"), main_contact |-> JStr(""),
                      region |-> JStr("")]),
      Body("object", [name |-> JStr("gym"), region |-> JObject]),
      Body("not_object", NoJson),
      Body("not_json", NoJson) }

Bodies(res) == IF res = "region" THEN RegionBodies ELSE SchoolBodies

\* path identifiers of get: well-formed ones (minted or not) and a malformed
\* one; the route /{1} takes no empty segment
Idents == {gen_random_uuid(n) : n \in 1..MaxReq} \cup {"not-a-uuid"}

(***************************************************************************)
(* State                                                                   *)
(***************************************************************************)
VARIABLES
    pc,        \* position of each request: idle, txwait, sql, res_ok, res_err, held, done
    op,        \* the request: kind (create, getAll, get), resource, JSON body, path id
    sql,       \* statements the request has issued, in order
    tx,        \* state of the request's transaction: none, active, aborted, committed, rolledback
    pending,   \* rows inserted by the request's transaction and not yet committed
    result,    \* what the storage layer answered: ok with rows, or an error
    resp,      \* responses handed to the request's callback, in order
    calls,     \* respond / rollback / commit events of the request, in order
    table,     \* committed rows of each table, in storage order
    nextUuid,  \* number of the next gen_random_uuid() draw
    minted,    \* id the storage layer minted for the request's INSERT ("" if none)
    crashed,   \* the server process has ended abnormally
    seen       \* for a read: the creates of its resource that were answered 200, and
               \* those whose transaction was committed, when the read was issued

vars == <<pc, op, sql, tx, pending, result, resp, calls, table, nextUuid, minted, crashed, seen>>

NoOp == [kind |-> "none", res |-> "none", body |-> "none", json |-> NoJson, id |-> ""]
NoResult == [ok |-> TRUE, rows |-> <<>>]
NoneSeen == [answered |-> {}, committed |-> {}]

Init ==
    /\ pc = [r \in Req |-> "idle"]
    /\ op = [r \in Req |-> NoOp]
    /\ sql = [r \in Req |-> <<>>]
    /\ tx = [r \in Req |-> "none"]
    /\ pending = [r \in Req |-> <<>>]
    /\ result = [r \in Req |-> NoResult]
    /\ resp = [r \in Req |-> <<>>]
    /\ calls = [r \in Req |-> <<>>]
    /\ table = [t \in Resources |-> <<>>]
    /\ nextUuid = 1
    /\ minted = [r \in Req |-> ""]
    /\ crashed = FALSE
    /\ seen = [r \in Req |-> NoneSeen]

\* request slots are taken in order
CanStart(r) ==
    /\ ~crashed
    /\ pc[r] = "idle"
    /\ (IF r = 1 THEN TRUE ELSE pc[r - 1] # "idle")

Answered(r, status) == \E i \in 1..Len(resp[r]) : resp[r][i].status = status

Answered200(res) ==
    {c \in Req : op[c].kind = "create" /\ op[c].res = res /\ Answered(c, k200OK)}

Committed(res) ==
    {c \in Req : op[c].kind = "create" /\ op[c].res = res /\ tx[c] = "committed"}

SeenNow(res) == [answered |-> Answered200(res), committed |-> Committed(res)]

(***************************************************************************)
(* create                                                                  *)
(***************************************************************************)
\* Regions::create / Schools::create up to newTransactionAsync.
\* fromCreateRequest runs first. When it raises, the exception leaves create:
\* no transaction is asked for and the handler answers nothing. When it
\* dereferences the empty getJsonObject(), the behaviour is undefined: the
\* process ends, or the read goes through as if the object had no field.
Create(r, res, body) ==
    /\ CanStart(r)
    /\ op' = [op EXCEPT ![r] = [kind |-> "create", res |-> res, body |-> body.kind,
                                json |-> body.json, id |-> ""]]
    /\ LET outcome == fromCreateRequestOutcome(res, body.kind, body.json) IN
          \/ /\ outcome = "entity"
             /\ pc' = [pc EXCEPT ![r] = "txwait"]
             /\ UNCHANGED crashed
          \/ /\ outcome = "throws"
             /\ pc' = [pc EXCEPT ![r] = "thrown"]
             /\ UNCHANGED crashed
          \/ /\ outcome = "undefined"
             /\ pc' = [pc EXCEPT ![r] = "crashed"]
             /\ crashed' = TRUE
          \/ /\ outcome = "undefined"
             /\ pc' = [pc EXCEPT ![r] = "txwait"]
             /\ UNCHANGED crashed
    /\ UNCHANGED <<sql, tx, pending, result, resp, calls, table, nextUuid, minted, seen>>

\* the mapped entity captured by the transaction callback
Entity(r) == fromCreateRequest(op[r].res, op[r].json)

\* the callback of newTransactionAsync: the transaction is open, the INSERT is issued
TransactionCallback(r) ==
    /\ ~crashed
    /\ pc[r] = "txwait"
    /\ tx' = [tx EXCEPT ![r] = "active"]
    /\ sql' = [sql EXCEPT ![r] = Append(@, execCreateSql(op[r].res, Entity(r)))]
    /\ pc' = [pc EXCEPT ![r] = "sql"]
    /\ UNCHANGED <<op, pending, result, resp, calls, table, nextUuid, minted, seen, crashed>>

\* the storage layer executes the INSERT inside the request's transaction
DbInsertOk(r) ==
    /\ ~crashed
    /\ pc[r] = "sql" /\ op[r].kind = "create"
    /\ pending' = [pending EXCEPT ![r] =
                      Append(@, InsertedRow(sql[r][Len(sql[r])], gen_random_uuid(nextUuid)))]
    /\ minted' = [minted EXCEPT ![r] = gen_random_uuid(nextUuid)]
    /\ nextUuid' = nextUuid + 1
    /\ result' = [result EXCEPT ![r] = [ok |-> TRUE, rows |-> <<>>]]
    /\ pc' = [pc EXCEPT ![r] = "res_ok"]
    /\ UNCHANGED <<op, sql, tx, resp, calls, table, seen, crashed>>

\* the storage layer raises an error on the INSERT: the transaction is aborted
DbInsertError(r) ==
    /\ ~crashed
    /\ pc[r] = "sql" /\ op[r].kind = "create"
    /\ tx' = [tx EXCEPT ![r] = "aborted"]
    /\ result' = [result EXCEPT ![r] = [ok |-> FALSE, rows |-> <<>>]]
    /\ pc' = [pc EXCEPT ![r] = "res_err"]
    /\ UNCHANGED <<op, sql, pending, resp, calls, table, nextUuid, minted, seen, crashed>>

\* result callback of create: [t, c] (const Result&) { emptyResponse(c, k200OK); }
CreateResultCallback(r) ==
    /\ ~crashed
    /\ pc[r] = "res_ok" /\ op[r].kind = "create"
    /\ resp' = [resp EXCEPT ![r] = Append(@, emptyResponse(k200OK))]
    /\ calls' = [calls EXCEPT ![r] = Append(@, "respond")]
    /\ pc' = [pc EXCEPT ![r] = "held"]
    /\ UNCHANGED <<op, sql, tx, pending, result, table, nextUuid, minted, seen, crashed>>

\* variant: the rollback discards the uncommitted rows of every open transaction
CreateExceptionCallback_SharedRollback(r) ==
    /\ ~crashed
    /\ pc[r] = "res_err" /\ op[r].kind = "create"
    /\ resp' = [resp EXCEPT ![r] = Append(@, emptyResponse(k500InternalServerError))]
    /\ calls' = [calls EXCEPT ![r] = @ \o <<"respond", "rollback">>]
    /\ tx' = [tx EXCEPT ![r] = "rolledback"]
    /\ pending' = [q \in Req |-> <<>>]
    /\ pc' = [pc EXCEPT ![r] = "held"]
    /\ UNCHANGED <<op, sql, result, table, nextUuid, minted, seen, crashed>>

\* exception callback of create: emptyResponse(c, k500...); t->rollback();
CreateExceptionCallback(r) ==
    /\ ~crashed
    /\ pc[r] = "res_err" /\ op[r].kind = "create"
    /\ resp' = [resp EXCEPT ![r] = Append(@, emptyResponse(k500InternalServerError))]
    /\ calls' = [calls EXCEPT ![r] = @ \o <<"respond", "rollback">>]
    /\ tx' = [tx EXCEPT ![r] = "rolledback"]
    /\ pending' = [pending EXCEPT ![r] = <<>>]
    /\ pc' = [pc EXCEPT ![r] = "held"]
    /\ UNCHANGED <<op, sql, result, table, nextUuid, minted, seen, crashed>>

\* The callbacks holding t are destroyed: a transaction that was not rolled back
\* commits when its last handle goes; no handler calls commit itself.
ReleaseTransaction(r) ==
    /\ ~crashed
    /\ pc[r] = "held"
    /\ IF tx[r] = "rolledback"
       THEN UNCHANGED <<tx, pending, table, calls>>
       ELSE /\ tx' = [tx EXCEPT ![r] = "committed"]
            /\ table' = [table EXCEPT ![op[r].res] = @ \o pending[r]]
            /\ pending' = [pending EXCEPT ![r] = <<>>]
            /\ calls' = [calls EXCEPT ![r] = Append(@, "commit")]
    /\ pc' = [pc EXCEPT ![r] = "done"]
    /\ UNCHANGED <<op, sql, result, resp, nextUuid, minted, seen, crashed>>

(***************************************************************************)
(* getAll and get                                                          *)
(***************************************************************************)
\* Regions::getAll / Schools::getAll: issues SELECT * on the client
GetAll(r, res) ==
    /\ CanStart(r)
    /\ op' = [op EXCEPT ![r] = [kind |-> "getAll", res |-> res, body |-> "none", json |-> NoJson, id |-> ""]]
    /\ sql' = [sql EXCEPT ![r] = Append(@, execGetAllSql(res))]
    /\ seen' = [seen EXCEPT ![r] = SeenNow(res)]
    /\ pc' = [pc EXCEPT ![r] = "sql"]
    /\ UNCHANGED <<tx, pending, result, resp, calls, table, nextUuid, minted, crashed>>

\* Regions::get / Schools::get: issues SELECT ... WHERE id=$1 on the client
Get(r, res, id) ==
    /\ CanStart(r)
    /\ op' = [op EXCEPT ![r] = [kind |-> "get", res |-> res, body |-> "none", json |-> NoJson, id |-> id]]
    /\ sql' = [sql EXCEPT ![r] = Append(@, execGetSql(res, id))]
    /\ seen' = [seen EXCEPT ![r] = SeenNow(res)]
    /\ pc' = [pc EXCEPT ![r] = "sql"]
    /\ UNCHANGED <<tx, pending, result, resp, calls, table, nextUuid, minted, crashed>>

\* the storage layer executes the SELECT over the committed rows
DbSelectOk(r) ==
    /\ ~crashed
    /\ pc[r] = "sql" /\ op[r].kind \in {"getAll", "get"}
    /\ result' = [result EXCEPT ![r] =
                     [ok |-> TRUE, rows |-> SelectedRows(sql[r][Len(sql[r])], table[op[r].res])]]
    /\ pc' = [pc EXCEPT ![r] = "res_ok"]
    /\ UNCHANGED <<op, sql, tx, pending, resp, calls, table, nextUuid, minted, seen, crashed>>

\* the storage layer raises an error on the SELECT
DbSelectError(r) ==
    /\ ~crashed
    /\ pc[r] = "sql" /\ op[r].kind \in {"getAll", "get"}
    /\ result' = [result EXCEPT ![r] = [ok |-> FALSE, rows |-> <<>>]]
    /\ pc' = [pc EXCEPT ![r] = "res_err"]
    /\ UNCHANGED <<op, sql, tx, pending, resp, calls, table, nextUuid, minted, seen, crashed>>

\* the loop root.insert(i, getRowToJson(r[i])) of getAll
RowsToJson(res, rows) == [i \in 1..Len(rows) |-> getRowToJson(res, rows[i])]

\* result callback of getAll: JSON array of the mapped rows, 200
GetAllResultCallback(r) ==
    /\ ~crashed
    /\ pc[r] = "res_ok" /\ op[r].kind = "getAll"
    /\ resp' = [resp EXCEPT ![r] =
                   Append(@, jsonArrayResponse(RowsToJson(op[r].res, result[r].rows), k200OK))]
    /\ calls' = [calls EXCEPT ![r] = Append(@, "respond")]
    /\ pc' = [pc EXCEPT ![r] = "done"]
    /\ UNCHANGED <<op, sql, tx, pending, result, table, nextUuid, minted, seen, crashed>>

\* variant: an empty result is answered like a found row, with 200
GetResultResponses_NoNotFound(res, rows) ==
    IF Len(rows) = 0
    THEN <<emptyResponse(k200OK)>>
    ELSE <<jsonObjectResponse(getRowToJson(res, rows[1]), k200OK)>>

\* the responses of get's result callback: 404 on an empty result, else 200 with row 0
GetResultResponses(res, rows) ==
    IF Len(rows) = 0
    THEN <<emptyResponse(k404NotFound)>>
    ELSE <<jsonObjectResponse(getRowToJson(res, rows[1]), k200OK)>>

\* result callback of get
GetResultCallback(r) ==
    /\ ~crashed
    /\ pc[r] = "res_ok" /\ op[r].kind = "get"
    /\ resp' = [resp EXCEPT ![r] = @ \o GetResultResponses(op[r].res, result[r].rows)]
    /\ calls' = [calls EXCEPT ![r] =
                    @ \o [i \in 1..Len(GetResultResponses(op[r].res, result[r].rows)) |-> "respond"]]
    /\ pc' = [pc EXCEPT ![r] = "done"]
    /\ UNCHANGED <<op, sql, tx, pending, result, table, nextUuid, minted, seen, crashed>>

\* exception callback of getAll and of get: 500, empty body
ReadExceptionCallback(r) ==
    /\ ~crashed
    /\ pc[r] = "res_err" /\ op[r].kind \in {"getAll", "get"}
    /\ resp' = [resp EXCEPT ![r] = Append(@, emptyResponse(k500InternalServerError))]
    /\ calls' = [calls EXCEPT ![r] = Append(@, "respond")]
    /\ pc' = [pc EXCEPT ![r] = "done"]
    /\ UNCHANGED <<op, sql, tx, pending, result, table, nextUuid, minted, seen, crashed>>

(***************************************************************************)
(* Specification                                                           *)
(***************************************************************************)
Step(r) ==
    \/ TransactionCallback(r)
    \/ DbInsertOk(r)
    \/ DbInsertError(r)
    \/ CreateResultCallback(r)
    \/ CreateExceptionCallback(r)
    \/ ReleaseTransaction(r)
    \/ DbSelectOk(r)
    \/ DbSelectError(r)
    \/ GetAllResultCallback(r)
    \/ GetResultCallback(r)
    \/ ReadExceptionCallback(r)

Next ==
    \/ \E r \in Req, res \in Resources : \E body \in Bodies(res) : Create(r, res, body)
    \/ \E r \in Req, res \in Resources : GetAll(r, res)
    \/ \E r \in Req, res \in Resources, id \in Idents : Get(r, res, id)
    \/ \E r \in Req : Step(r)

Spec == Init /\ [][Next]_vars

(***************************************************************************)
(* Helpers of the properties                                               *)
(***************************************************************************)
Creates == {r \in Req : op[r].kind = "create"}
Reads(kind) == {r \in Req : op[r].kind = kind}

Count(seq, x) == Cardinality({i \in 1..Len(seq) : seq[i] = x})

Precedes(seq, x, y) ==
    \E i, j \in 1..Len(seq) : i < j /\ seq[i] = x /\ seq[j] = y

\* the request has ended: its handler and callbacks have run to their end, an
\* exception has left the handler, or the process has ended under it
Ended(r) ==
    \/ pc[r] \in {"done", "thrown", "crashed"}
    \/ crashed /\ pc[r] # "idle"

\* the storage layer raised an error on the request's statement
StorageError(r) == pc[r] \in {"res_err", "held", "done"} /\ ~result[r].ok

\* positions of the committed rows of a table that carry the id
RowsWithId(res, id) == {i \in 1..Len(table[res]) : table[res][i]["id"] = SqlText(id)}

IsEmpty500(rs) == rs = <<[status |-> 500, type |-> "empty", items |-> <<>>]>>

(***************************************************************************)
(* C1                                                                      *)
(***************************************************************************)
\* C1: whenever a create (Region or School) has handed the HTTP 500 response of a
\* failed INSERT to its callback, the rollback of its transaction came before
\* that response.
C1_RollbackBeforeResponse ==
    \A r \in Creates :
        Answered(r, 500) => Precedes(calls[r], "rollback", "respond")

(***************************************************************************)
(* C2                                                                      *)
(***************************************************************************)
Settled(res) == \A c \in Creates : op[c].res = res => Ended(c)

\* C2: once the creates of a resource have all ended, the table holds as many
\* rows as creates were answered 200, one row per create answered 200 and none
\* per create answered 500; a create whose INSERT raised a storage error and
\* whose callback has run is answered 500 with an empty body.
C2_RowsMatchAnswers ==
    /\ \A res \in Resources :
          Settled(res) =>
              /\ Len(table[res]) = Cardinality(Answered200(res))
              /\ \A c \in Creates :
                    op[c].res = res =>
                        /\ Answered(c, 200) => Cardinality(RowsWithId(res, minted[c])) = 1
                        /\ Answered(c, 500) => minted[c] = ""
    /\ \A c \in Creates :
          (StorageError(c) /\ pc[c] # "res_err") => IsEmpty500(resp[c])

(***************************************************************************)
(* C3                                                                      *)
(***************************************************************************)
\* C3: a create never commits or rolls back its transaction more than once in
\* total; when it has ended with a transaction borrowed, the transaction was
\* committed once and never rolled back after the success callback, rolled
\* back once and never committed after the exception callback, and is in one
\* of the two states.
C3_ReleasedExactlyOnce ==
    \A r \in Creates :
        /\ Count(calls[r], "commit") + Count(calls[r], "rollback") <= 1
        /\ (Ended(r) /\ tx[r] # "none") =>
              /\ tx[r] \in {"committed", "rolledback"}
              /\ (result[r].ok /\ Answered(r, 200)) =>
                    Count(calls[r], "commit") = 1 /\ Count(calls[r], "rollback") = 0
              /\ ~result[r].ok =>
                    Count(calls[r], "rollback") = 1 /\ Count(calls[r], "commit") = 0

(***************************************************************************)
(* C4                                                                      *)
(***************************************************************************)
ItemIds(items) == {asString(items[i].id) : i \in 1..Len(items)}

\* C4: a getAll whose SELECT succeeded answers 200 with a JSON array that holds
\* the row of every create of the resource that had been answered 200 when the
\* getAll was issued, and exactly those rows when no other create inserted.
C4_GetAllSeesAnswered ==
    \A g \in Reads("getAll") :
        (pc[g] = "done" /\ result[g].ok) =>
            /\ Len(resp[g]) = 1
            /\ resp[g][1].status = 200 /\ resp[g][1].type = "array"
            /\ \A c \in seen[g].answered : minted[c] \in ItemIds(resp[g][1].items)
            /\ (seen[g].answered = {c \in Creates : op[c].res = op[g].res /\ minted[c] # ""})
                  => Len(resp[g][1].items) = Cardinality(seen[g].answered)

(***************************************************************************)
(* C5                                                                      *)
(***************************************************************************)
Malformed == {"not-a-uuid"}

\* C5: a completed get is answered 200 with the single object of the row whose
\* id is the identifier when the SELECT returned a row, 404 with an empty body
\* when it returned none, which is the case of every identifier no stored row
\* carries (malformed ones included), and 500 with an empty body exactly when
\* the storage layer raised an error.
C5_GetOutcomes ==
    \A g \in Reads("get") :
        pc[g] = "done" =>
            /\ Len(resp[g]) = 1
            /\ (resp[g][1].status = 500) <=> ~result[g].ok
            /\ ~result[g].ok => IsEmpty500(resp[g])
            /\ (result[g].ok /\ Len(result[g].rows) = 0) =>
                  resp[g] = <<[status |-> 404, type |-> "empty", items |-> <<>>]>>
            /\ (result[g].ok /\ Len(result[g].rows) > 0) =>
                  /\ resp[g][1].status = 200 /\ resp[g][1].type = "object"
                  /\ Len(resp[g][1].items) = 1
                  /\ resp[g][1].items[1].id = JStr(op[g].id)
                  /\ RowsWithId(op[g].res, op[g].id) # {}
            /\ (result[g].ok /\ (op[g].id \in Malformed \/ RowsWithId(op[g].res, op[g].id) = {})) =>
                  resp[g][1].status = 404

\* a get of a malformed identifier is answered 404 although its table holds a row
C5_Witness ==
    \E g \in Reads("get") :
        /\ pc[g] = "done" /\ op[g].id \in Malformed
        /\ Len(table[op[g].res]) > 0
        /\ resp[g][1].status = 404

(***************************************************************************)
(* C6                                                                      *)
(***************************************************************************)
Required(res) ==
    IF res = "region" THEN {"name", "legal_address"}
    ELSE {"name", "legal_id", "address", "main_contact", "region"}

\* a valid create payload: the required fields are present and every field is a string
Valid(res, body, json) ==
    /\ body = "object"
    /\ Required(res) \subseteq DOMAIN json
    /\ \A k \in DOMAIN json : json[k].type = "string"

\* the id a create's response carries: none in an empty body
ReturnedId(r) ==
    IF Len(resp[r]) > 0 /\ resp[r][1].type = "object" /\ Len(resp[r][1].items) = 1
    THEN asString(resp[r][1].items[1].id)
    ELSE ""

\* the object of a get equals the payload on every field but id, and its id is
\* non-empty and not the payload's
RoundTrips(json, obj) ==
    /\ \A k \in DOMAIN json \ {"id"} : obj[k] = json[k]
    /\ asString(obj.id) # ""
    /\ "id" \in DOMAIN json => obj.id # json["id"]

\* C6 as stated: every create of a valid payload answered 200 returns an id, and
\* a get by that id yields the payload's fields with a fresh, non-empty id.
C6_RoundTripByReturnedId ==
    \A c \in Creates :
        (Valid(op[c].res, op[c].body, op[c].json) /\ Answered(c, 200)) =>
            /\ ReturnedId(c) # ""
            /\ \A g \in Reads("get") :
                  (op[g].res = op[c].res /\ op[g].id = ReturnedId(c)
                      /\ pc[g] = "done" /\ result[g].ok) =>
                      /\ resp[g][1].status = 200
                      /\ RoundTrips(op[c].json, resp[g][1].items[1])

\* C6 with the id taken from storage instead of the create's answer: the round
\* trip by the id the storage layer minted for the create's row, for
\* a get whose SELECT ran after the create was answered 200: it fails as well,
\* with 404, when the SELECT runs before the create's transaction is committed
C6_RoundTripAfterAnswer ==
    \A c \in Creates :
        Valid(op[c].res, op[c].body, op[c].json) =>
            \A g \in Reads("get") :
                (op[g].res = op[c].res /\ op[g].id = minted[c] /\ c \in seen[g].answered
                    /\ pc[g] = "done" /\ result[g].ok) =>
                    /\ resp[g][1].status = 200
                    /\ RoundTrips(op[c].json, resp[g][1].items[1])

(***************************************************************************)
(* C7                                                                      *)
(***************************************************************************)
IsPrefix(s, t) == Len(s) <= Len(t) /\ \A i \in 1..Len(s) : s[i] = t[i]

MintedIds == {gen_random_uuid(n) : n \in 1..(nextUuid - 1)}

\* the id of every stored row was minted by the storage layer for the create
\* that inserted it, and is not the id its request carried
IdsFromStorage ==
    \A res \in Resources : \A i \in 1..Len(table[res]) :
        /\ ~table[res][i]["id"].null /\ table[res][i]["id"].text \in MintedIds
        /\ \E c \in Creates :
              /\ op[c].res = res /\ SqlText(minted[c]) = table[res][i]["id"]
              /\ "id" \in DOMAIN op[c].json => minted[c] # asString(op[c].json["id"])

\* a step keeps every committed row, with its id and field values, in place
RowsKept == \A res \in Resources : IsPrefix(table[res], table'[res])

\* a step of a get or a getAll leaves the tables and the uncommitted rows alone
ReadsChangeNothing ==
    (\E r \in Req : pc'[r] # pc[r] /\ op'[r].kind \in {"get", "getAll"}) =>
        (table' = table /\ pending' = pending)

\* C7: entities are append-only: every step keeps each persisted row with its id
\* and field values, get and getAll change no row, and every row's id was
\* minted by the storage layer at creation, never taken from the request.
C7_AppendOnly ==
    /\ []IdsFromStorage
    /\ [][RowsKept /\ ReadsChangeNothing]_vars

\* a row whose request carried an id of its own is stored and has been read by a getAll
C7_Witness ==
    \E c \in Creates, g \in Reads("getAll") :
        /\ "id" \in DOMAIN op[c].json /\ tx[c] = "committed"
        /\ op[g].res = op[c].res /\ pc[g] = "done"
        /\ minted[c] \in ItemIds(resp[g][1].items)

(***************************************************************************)
(* C8                                                                      *)
(***************************************************************************)
\* C8: creates are independent: a create whose INSERT the storage layer accepted
\* keeps its uncommitted row until its transaction ends, is answered 200 and has
\* exactly its own row persisted once completed, whatever the other create did
\* meanwhile (rollback included), and the persisted ids are pairwise distinct.
C8_IndependentCreates ==
    /\ \A c \in Creates :
          minted[c] # "" =>
              /\ pc[c] \in {"res_ok", "held"} =>
                    (Len(pending[c]) = 1 /\ pending[c][1]["id"] = SqlText(minted[c]))
              /\ pc[c] \in {"held", "done"} => Answered(c, 200)
              /\ pc[c] = "done" => Cardinality(RowsWithId(op[c].res, minted[c])) = 1
    /\ \A res \in Resources : \A i, j \in 1..Len(table[res]) :
          i # j => table[res][i]["id"] # table[res][j]["id"]

\* two distinct Region rows were created by overlapping creates (the later
\* INSERT committed first), both answered 200
C8_Witness ==
    \E a, b \in Creates :
        /\ a # b /\ op[a].res = "region" /\ op[b].res = "region"
        /\ op[a].json # op[b].json
        /\ Answered(a, 200) /\ Answered(b, 200)
        /\ Len(table["region"]) = 2
        /\ table["region"][1]["id"] = SqlText(gen_random_uuid(2))
        /\ table["region"][2]["id"] = SqlText(gen_random_uuid(1))

(***************************************************************************)
(* C9                                                                      *)
(***************************************************************************)
\* C9: every request of create, getAll or get issues at most one statement and
\* is answered once: never more than one response, exactly one when its
\* callback has run or the request has ended, and until then a further step of
\* the request is always possible.
C9_AnsweredExactlyOnce ==
    \A r \in Req :
        /\ Len(resp[r]) <= 1
        /\ Len(sql[r]) <= 1
        /\ Count(calls[r], "respond") = Len(resp[r])
        /\ (pc[r] = "held" \/ Ended(r)) => Len(resp[r]) = 1
        /\ (pc[r] # "idle" /\ ~Ended(r) /\ Len(resp[r]) = 0) => ENABLED Step(r)

(***************************************************************************)
(* C10                                                                     *)
(***************************************************************************)
Names(st, col) == \E i \in 1..Len(st.cols) : st.cols[i] = col

\* the value the statement binds to the column
Bound(st, col) == st.params[ParamIndex(st.values[ColIndex(st.cols, col)])]

\* C10: the INSERT of a Region create names and binds main_contact exactly when
\* the mapped main_contact is non-empty, and then to that value; the INSERT of
\* a School create names and binds name, legal_id, address, main_contact and
\* region to the mapped values, empty or not.
C10_InsertColumns ==
    \A r \in Creates :
        Len(sql[r]) > 0 =>
            IF op[r].res = "region"
            THEN /\ Names(sql[r][1], "main_contact") <=> Entity(r).mainContact # ""
                 /\ Names(sql[r][1], "main_contact") =>
                       Bound(sql[r][1], "main_contact") = Entity(r).mainContact
                 /\ Len(sql[r][1].params) = Len(sql[r][1].cols) - 1
            ELSE /\ \A col \in Columns("school") : Names(sql[r][1], col)
                 /\ Len(sql[r][1].params) = 5
                 /\ Bound(sql[r][1], "name") = Entity(r).name
                 /\ Bound(sql[r][1], "legal_id") = Entity(r).legalId
                 /\ Bound(sql[r][1], "address") = Entity(r).address
                 /\ Bound(sql[r][1], "main_contact") = Entity(r).mainContact
                 /\ Bound(sql[r][1], "region") = Entity(r).region

\* a Region INSERT without main_contact and a School INSERT binding an empty
\* main_contact have both been stored
C10_Witness ==
    \E a, b \in Creates :
        /\ op[a].res = "region" /\ tx[a] = "committed"
        /\ "main_contact" \in DOMAIN op[a].json /\ Entity(a).mainContact = ""
        /\ ~Names(sql[a][1], "main_contact")
        /\ op[b].res = "school" /\ tx[b] = "committed"
        /\ Entity(b).mainContact = "" /\ Names(sql[b][1], "main_contact")

====
